---- MODULE Spec2Model ----
(***************************************************************************)
(* Model of scripts/icon-builder.py: the build pipeline                    *)
(*   verify_environment -> clean_dist -> copy_puml -> build_file_list ->   *)
(*   category directories -> Pool of render jobs -> barrier -> aggregation *)
(*   -> three output files.                                                *)
(* The script may be invoked again over the same source tree.              *)
(***************************************************************************)
EXTENDS Integers, Sequences, FiniteSets, TLC

(* ------------------------------ bounds --------------------------------- *)
\* largest number of *.png files below ../source/official
MaxFiles == 2
\* multiprocessing.cpu_count() of the machine the script runs on
NumWorkers == 2

\* category and target names, written as their rank in lexicographic order
Categories == {1, 2}
Targets == {1, 2}

(* ---------------------------- program constants ------------------------ *)
\* body, width, height = None, 64, 64
DefaultSize == 64

(* ------------------------------ the inputs ----------------------------- *)
\* What lies next to a discovered <name>.png:
\*   "svg"            a well-formed <name>.svg with width and height
\*   "svg_malformed"  a <name>.svg that etree cannot parse, or without width/height
\*   "png"            no sibling, the raster file is readable
\*   "png_unreadable" no sibling, open()/read() of the raster file raises
\*   "dangling"       no sibling, the name is a link whose destination is missing
Kinds == {"svg", "svg_malformed", "png", "png_unreadable", "dangling"}

FileRec == [category : Categories, target : Targets, kind : Kinds]

\* paths are written as their rank in lexicographic order
Trees == UNION {[1..n -> FileRec] : n \in 0..MaxFiles}

\* the orders in which a directory walk can yield n paths
Perms(n) == {p \in [1..n -> 1..n] : \A i, j \in 1..n : i # j => p[i] # p[j]}

\* The checks of verify_environment, in the order it makes them. It stops at
\* the first one that fails, so a run is decided by which check that is:
\*   "cwd"          the working directory is not gcp-icons-for-plantuml/scripts
\*   "config"       config.yml is missing or yaml.safe_load raises
\*   "common_puml"  ../source/GCPCommon.puml is missing
\*   "official"     ../source/official is missing
\*   "java_launch"  subprocess.run raises
Checks == {"cwd", "config", "common_puml", "official", "java_launch"}

VARIABLES
    tree,          \* ../source/official: path -> what the file is
    fs,            \* ../dist and ../GCPSymbols.md
    fsAtStart,     \* fs as it was when the current invocation started
    args,          \* the parsed command line
    verify_failure, \* the check of verify_environment that failed, or "none"
    config,        \* the global config
    pc,            \* position of main()
    exit_status,   \* "running", "0" or "1"
    source_files,
    icons,
    jobs,          \* the pool: one status per submitted task
    sorted_icons,
    idx,           \* position of the aggregation loop in sorted_icons
    markdown,
    structerizr,
    mermaid

vars == <<tree, fs, fsAtStart, args, verify_failure, config, pc, exit_status,
          source_files, icons, jobs, sorted_icons, idx, markdown,
          structerizr, mermaid>>

(* ------------------------------ file system ---------------------------- *)
NoMd == [written |-> FALSE, rows |-> <<>>]
NoTheme == [written |-> FALSE, elements |-> <<>>]
NoManifest == [written |-> FALSE, total |-> 0, icons |-> <<>>, categories |-> <<>>]

NoDist == [exists |-> FALSE, dirs |-> {}, puml |-> FALSE,
           theme |-> NoTheme, manifest |-> NoManifest]

\* clean_dist: rmtree if present, then mkdir
CleanedDist == [exists |-> TRUE, dirs |-> {}, puml |-> FALSE,
                theme |-> NoTheme, manifest |-> NoManifest]

(* ------------------------------ verify_environment --------------------- *)
\* outcome of verify_environment when check f fails (f = "none": none does):
\* "exit1", "exit0" or "continue"
VerifyIgnoresLaunchError(f, a) ==
    IF f = "cwd" THEN "exit1"
    ELSE IF f = "config" THEN "exit1"
    ELSE IF f = "common_puml" THEN "exit1"
    ELSE IF f = "official" THEN "exit1"
    ELSE IF a.check_env THEN "exit0"
    ELSE "continue"

VerifyIgnoresCheckEnv(f, a) ==
    IF f = "cwd" THEN "exit1"
    ELSE IF f = "config" THEN "exit1"
    ELSE IF f = "common_puml" THEN "exit1"
    ELSE IF f = "official" THEN "exit1"
    ELSE IF f = "java_launch" THEN "exit1"
    ELSE "continue"

VerifyOutcome(f, a) ==
    IF f = "cwd" THEN "exit1"
    ELSE IF f = "config" THEN "exit1"
    ELSE IF f = "common_puml" THEN "exit1"
    ELSE IF f = "official" THEN "exit1"
    ELSE IF f = "java_launch" THEN "exit1"
    ELSE IF a.check_env THEN "exit0"
    ELSE "continue"

(* ------------------------------ sorting -------------------------------- *)
\* sorted() is stable: an element goes after every element that is not greater
RECURSIVE InsertPath(_, _)
InsertPath(s, f) ==
    IF s = <<>> THEN <<f>>
    ELSE IF Head(s) <= f THEN <<Head(s)>> \o InsertPath(Tail(s), f)
    ELSE <<f>> \o s

RECURSIVE SortedPaths(_)
SortedPaths(s) ==
    IF s = <<>> THEN <<>>
    ELSE InsertPath(SortedPaths(SubSeq(s, 1, Len(s) - 1)), s[Len(s)])

\* what the directory walk yields, in the order it yields it
Globbed(p) == [i \in DOMAIN p |-> p[i]]

build_file_list_unsorted(p) == Globbed(p)

build_file_list(p) == SortedPaths(Globbed(p))

\* key=lambda x: (x.category, x.target), compared as tuples
KeyLeq(a, b) ==
    \/ a.category < b.category
    \/ a.category = b.category /\ a.target <= b.target

RECURSIVE InsertIcon(_, _)
InsertIcon(s, x) ==
    IF s = <<>> THEN <<x>>
    ELSE IF KeyLeq(Head(s), x) THEN <<Head(s)>> \o InsertIcon(Tail(s), x)
    ELSE <<x>> \o s

RECURSIVE SortedByKey(_)
SortedByKey(s) ==
    IF s = <<>> THEN <<>>
    ELSE InsertIcon(SortedByKey(SubSeq(s, 1, Len(s) - 1)), s[Len(s)])

\* key=lambda x: (x.target, x.category)
SortIconsByTargetFirst(s) ==
    LET Swap(t) == [i \in DOMAIN t |->
            [filename |-> t[i].filename, category |-> t[i].target,
             target |-> t[i].category]]
    IN Swap(SortedByKey(Swap(s)))

SortIcons(s) == SortedByKey(s)

(* ------------------------------ Icon ----------------------------------- *)
\* Icon(filename, config): the category and the target derived from the path
Icon(f) == [filename |-> f, category |-> tree[f].category, target |-> tree[f].target]

(* ------------------------------ dict ----------------------------------- *)
\* a dict is the sequence of its <<key, value>> items in insertion order
DictHas(d, k) == \E i \in DOMAIN d : d[i][1] = k

DictGet(d, k) == d[CHOOSE i \in DOMAIN d : d[i][1] = k][2]

\* d[k] = v: a new key goes last, an existing key keeps its place
DictSet(d, k, v) ==
    IF DictHas(d, k)
    THEN [i \in DOMAIN d |-> IF d[i][1] = k THEN <<k, v>> ELSE d[i]]
    ELSE Append(d, <<k, v>>)

DictKeys(d) == [i \in DOMAIN d |-> d[i][1]]

(* ------------------------------ build_mermaid_icon --------------------- *)
SvgSiblingExists(f) == tree[f].kind \in {"svg", "svg_malformed"}

\* the width/height attributes of the vector file, "px" stripped
SvgDim(f) == 16 * f

\* the result of the embedding attempt on file name <<ext, f>>
Embed(ext, f) ==
    IF ext = "svg" /\ SvgSiblingExists(f)
    THEN IF tree[f].kind = "svg"
         THEN [ok |-> TRUE, body |-> <<"svg-children", f>>,
               width |-> SvgDim(f), height |-> SvgDim(f)]
         ELSE [ok |-> FALSE, body |-> <<"none", 0>>, width |-> 0, height |-> 0]
    ELSE IF ext = "png" /\ tree[f].kind # "dangling"
    THEN IF tree[f].kind = "png_unreadable"
         THEN [ok |-> FALSE, body |-> <<"none", 0>>, width |-> 0, height |-> 0]
         ELSE [ok |-> TRUE, body |-> <<"data:image/png;base64", f>>,
               width |-> DefaultSize, height |-> DefaultSize]
    ELSE [ok |-> FALSE, body |-> <<"none", 0>>, width |-> 0, height |-> 0]

\* lines 115-119
InsertEntry(m, e, cat, tgt) ==
    [m EXCEPT
       !.total = @ + 1,
       !.categories =
           IF DictHas(@, cat)
           THEN DictSet(@, cat, Append(DictGet(@, cat), tgt))
           ELSE DictSet(@, cat, <<tgt>>),
       !.icons = DictSet(@, tgt,
                    [body |-> e.body, width |-> e.width, height |-> e.height])]

build_mermaid_icon_counts_all(m, ext, f, cat, tgt) ==
    LET e == Embed(ext, f) IN
    IF e.ok THEN InsertEntry(m, e, cat, tgt) ELSE [m EXCEPT !.total = @ + 1]

build_mermaid_icon_group_first(m, ext, f, cat, tgt) ==
    LET e == Embed(ext, f)
        g == IF DictHas(m.categories, cat) THEN m
             ELSE [m EXCEPT !.categories = DictSet(@, cat, <<>>)]
    IN IF e.ok THEN InsertEntry(m, e, cat, tgt) ELSE g

build_mermaid_icon(m, ext, f, cat, tgt) ==
    LET e == Embed(ext, f) IN
    IF e.ok THEN InsertEntry(m, e, cat, tgt) ELSE m

EmptyMermaid == [prefix |-> "gcp", version |-> "20.0", total |-> 0,
                 icons |-> <<>>, categories |-> <<>>]

MarkdownRow(cat, tgt) ==
    [category |-> cat, target |-> tgt, image |-> <<"dist", cat, tgt, "png">>,
     puml |-> <<cat, tgt, "puml">>]

ThemeElement(cat, tgt) ==
    [tag |-> tgt, stroke |-> "#4284F3", icon |-> <<cat, tgt, "png">>]

(* ------------------------------ category directories ------------------- *)
CategoriesOf(ic) == {ic[i].category : i \in DOMAIN ic}

MakeFirstCategoryDir(dirs, ic) ==
    IF ic = <<>> THEN dirs ELSE dirs \cup {ic[1].category}

\* for i in categories: Path(f"../dist/{i}").mkdir(exist_ok=True)
MakeCategoryDirs(dirs, ic) == dirs \cup CategoriesOf(ic)

(* ------------------------------ the pool ------------------------------- *)
Running(i) == jobs[i] = "running"

Finished(i) == jobs[i] \in {"done", "raised"}

JoinWaitsForQueueOnly == \A i \in DOMAIN jobs : jobs[i] # "pending"

JoinWaitsForSuccess == \A i \in DOMAIN jobs : jobs[i] = "done"

\* pool.join(): every submitted task has been taken and has returned or raised
AllJobsFinished == \A i \in DOMAIN jobs : Finished(i)

(* ------------------------------ Init ----------------------------------- *)
Init ==
    /\ tree \in Trees
    /\ fs = [dist |-> NoDist, md |-> NoMd]
    /\ fsAtStart = [dist |-> NoDist, md |-> NoMd]
    /\ args \in [check_env : BOOLEAN]
    /\ verify_failure = "none"
    /\ config = "unset"
    /\ pc = "verify"
    /\ exit_status = "running"
    /\ source_files = <<>>
    /\ icons = <<>>
    /\ jobs = <<>>
    /\ sorted_icons = <<>>
    /\ idx = 1
    /\ markdown = <<>>
    /\ structerizr = <<>>
    /\ mermaid = EmptyMermaid

(* ------------------------------ main ----------------------------------- *)
VerifyEnvironment ==
    /\ pc = "verify"
    /\ \E f \in Checks \cup {"none"} :
        /\ verify_failure' = f
        /\ config' = IF f \in {"cwd", "config"} THEN config ELSE "loaded"
        /\ LET o == VerifyOutcome(f, args) IN
            /\ pc' = IF o = "continue" THEN "clean" ELSE "exited"
            /\ exit_status' = IF o = "exit1" THEN "1"
                              ELSE IF o = "exit0" THEN "0" ELSE exit_status
    /\ UNCHANGED <<tree, fs, fsAtStart, args, source_files, icons, jobs,
                   sorted_icons, idx, markdown, structerizr, mermaid>>

CleanDist ==
    /\ pc = "clean"
    /\ fs' = [fs EXCEPT !.dist = CleanedDist]
    /\ pc' = "copy"
    /\ UNCHANGED <<tree, fsAtStart, args, verify_failure, config, exit_status,
                   source_files, icons, jobs, sorted_icons, idx, markdown,
                   structerizr, mermaid>>

CopyPuml ==
    /\ pc = "copy"
    /\ fs' = [fs EXCEPT !.dist.puml = TRUE]
    /\ pc' = "enumerate"
    /\ UNCHANGED <<tree, fsAtStart, args, verify_failure, config, exit_status,
                   source_files, icons, jobs, sorted_icons, idx, markdown,
                   structerizr, mermaid>>

Enumerate ==
    /\ pc = "enumerate"
    /\ \E p \in Perms(Len(tree)) :
        LET files == build_file_list(p) IN
        /\ source_files' = files
        /\ icons' = [i \in DOMAIN files |-> Icon(files[i])]
    /\ pc' = "mkdirs"
    /\ UNCHANGED <<tree, fs, fsAtStart, args, verify_failure, config, exit_status,
                   jobs, sorted_icons, idx, markdown, structerizr, mermaid>>

MakeDirs ==
    /\ pc = "mkdirs"
    /\ fs' = [fs EXCEPT !.dist.dirs = MakeCategoryDirs(@, icons)]
    /\ pc' = "submit"
    /\ UNCHANGED <<tree, fsAtStart, args, verify_failure, config, exit_status,
                   source_files, icons, jobs, sorted_icons, idx, markdown,
                   structerizr, mermaid>>

\* one pool.apply_async(worker, args=(i,))
Submit ==
    /\ pc = "submit"
    /\ Len(jobs) < Len(icons)
    /\ jobs' = Append(jobs, "pending")
    /\ UNCHANGED <<tree, fs, fsAtStart, args, verify_failure, config, pc, exit_status,
                   source_files, icons, sorted_icons, idx, markdown,
                   structerizr, mermaid>>

PoolClose ==
    /\ pc = "submit"
    /\ Len(jobs) = Len(icons)
    /\ pc' = "join"
    /\ UNCHANGED <<tree, fs, fsAtStart, args, verify_failure, config, exit_status,
                   source_files, icons, jobs, sorted_icons, idx, markdown,
                   structerizr, mermaid>>

PoolJoin ==
    /\ pc = "join"
    /\ AllJobsFinished
    /\ pc' = "sort"
    /\ UNCHANGED <<tree, fs, fsAtStart, args, verify_failure, config, exit_status,
                   source_files, icons, jobs, sorted_icons, idx, markdown,
                   structerizr, mermaid>>

\* lines 159-170
SortAndInit ==
    /\ pc = "sort"
    /\ sorted_icons' = SortIcons(icons)
    /\ idx' = 1
    /\ markdown' = <<"# GCP Symbols">>
    /\ structerizr' = <<>>
    /\ mermaid' = EmptyMermaid
    /\ pc' = IF icons = <<>> THEN "write" ELSE "aggregate"
    /\ UNCHANGED <<tree, fs, fsAtStart, args, verify_failure, config, exit_status,
                   source_files, icons, jobs>>

\* one iteration of: for j in sorted_icons
AggregateIcon ==
    /\ pc = "aggregate"
    /\ LET j == sorted_icons[idx]
           cat == j.category
           tgt == j.target
           ext == IF SvgSiblingExists(j.filename) THEN "svg" ELSE "png"
       IN /\ markdown' = Append(markdown, MarkdownRow(cat, tgt))
          /\ structerizr' = Append(structerizr, ThemeElement(cat, tgt))
          /\ mermaid' = build_mermaid_icon(mermaid, ext, j.filename, cat, tgt)
    /\ idx' = idx + 1
    /\ pc' = IF idx = Len(sorted_icons) THEN "write" ELSE "aggregate"
    /\ UNCHANGED <<tree, fs, fsAtStart, args, verify_failure, config, exit_status,
                   source_files, icons, jobs, sorted_icons>>

\* lines 185-192, and the return of main()
WriteOutputs ==
    /\ pc = "write"
    /\ fs' = [fs EXCEPT
                !.md = [written |-> TRUE, rows |-> markdown],
                !.dist.theme = [written |-> TRUE, elements |-> structerizr],
                !.dist.manifest = [written |-> TRUE, total |-> mermaid.total,
                                   icons |-> mermaid.icons,
                                   categories |-> mermaid.categories]]
    /\ pc' = "done"
    /\ exit_status' = "0"
    /\ UNCHANGED <<tree, fsAtStart, args, verify_failure, config, source_files,
                   icons, jobs, sorted_icons, idx, markdown, structerizr, mermaid>>

\* the script is invoked again over the same tree, after any earlier run
Rerun ==
    /\ pc \in {"done", "exited"}
    /\ fsAtStart' = fs
    /\ args' \in [check_env : BOOLEAN]
    /\ verify_failure' = "none"
    /\ config' = "unset"
    /\ pc' = "verify"
    /\ exit_status' = "running"
    /\ source_files' = <<>>
    /\ icons' = <<>>
    /\ jobs' = <<>>
    /\ sorted_icons' = <<>>
    /\ idx' = 1
    /\ markdown' = <<>>
    /\ structerizr' = <<>>
    /\ mermaid' = EmptyMermaid
    /\ UNCHANGED <<tree, fs>>

(* ------------------------------ worker --------------------------------- *)
\* a pool process takes the oldest queued task
JobStart(i) ==
    /\ i \in DOMAIN jobs
    /\ jobs[i] = "pending"
    /\ \A k \in 1..(i - 1) : jobs[k] # "pending"
    /\ Cardinality({k \in DOMAIN jobs : Running(k)}) < NumWorkers
    /\ jobs' = [jobs EXCEPT ![i] = "running"]
    /\ UNCHANGED <<tree, fs, fsAtStart, args, verify_failure, config, pc, exit_status,
                   source_files, icons, sorted_icons, idx, markdown,
                   structerizr, mermaid>>

\* worker(icon) returns
JobReturn(i) ==
    /\ i \in DOMAIN jobs
    /\ Running(i)
    /\ jobs' = [jobs EXCEPT ![i] = "done"]
    /\ UNCHANGED <<tree, fs, fsAtStart, args, verify_failure, config, pc, exit_status,
                   source_files, icons, sorted_icons, idx, markdown,
                   structerizr, mermaid>>

\* generate_image or generate_puml raises; the pool keeps the exception in the
\* task's AsyncResult, which main() never reads
JobRaise(i) ==
    /\ i \in DOMAIN jobs
    /\ Running(i)
    /\ jobs' = [jobs EXCEPT ![i] = "raised"]
    /\ UNCHANGED <<tree, fs, fsAtStart, args, verify_failure, config, pc, exit_status,
                   source_files, icons, sorted_icons, idx, markdown,
                   structerizr, mermaid>>

Main ==
    \/ VerifyEnvironment
    \/ CleanDist
    \/ CopyPuml
    \/ Enumerate
    \/ MakeDirs
    \/ Submit
    \/ PoolClose
    \/ PoolJoin
    \/ SortAndInit
    \/ AggregateIcon
    \/ WriteOutputs

Worker(i) == JobStart(i) \/ JobReturn(i) \/ JobRaise(i)

Next ==
    \/ Main
    \/ \E i \in 1..MaxFiles : Worker(i)
    \/ Rerun

Spec == Init /\ [][Next]_vars

\* The pool and the barrier never read the source files, so the behaviours
\* checked for progress start from the trees whose files are of two kinds,
\* one that embeds and one that does not.
PoolKinds == {"png", "svg_malformed"}

FairInit == Init /\ \A f \in DOMAIN tree : tree[f].kind \in PoolKinds

\* the operating system schedules every process that can run
FairSpec ==
    /\ FairInit
    /\ [][Next]_vars
    /\ WF_vars(Main)
    /\ \A i \in 1..MaxFiles : WF_vars(Worker(i))

(* ------------------------------ properties ----------------------------- *)
\* the embedding of the icon made from path f succeeds
Embeddable(f) == tree[f].kind \in {"svg", "png"}

Failed == {i \in DOMAIN icons : ~Embeddable(icons[i].filename)}

Embedded == {i \in DOMAIN icons : Embeddable(icons[i].filename)}

OutputsWritten ==
    fs.md.written /\ fs.dist.theme.written /\ fs.dist.manifest.written

\* C1: once the aggregation loop has processed every icon, info.total is the
\* number of discovered icons minus the number whose embedding failed, and
\* that is the total written to the manifest file.
C1_TotalIsEmbedded ==
    /\ pc \in {"write", "done"} =>
           mermaid.total = Len(icons) - Cardinality(Failed)
    /\ pc = "done" =>
           fs.dist.manifest.total = Len(icons) - Cardinality(Failed)

C1_Witness ==
    /\ pc = "done"
    /\ Failed # {}
    /\ Embedded # {}
    /\ fs.dist.manifest.total = Cardinality(Embedded)

\* (category, target) pairs in ascending order, equal neighbours allowed
PairLeq(a, b) == a[1] < b[1] \/ (a[1] = b[1] /\ a[2] <= b[2])

PairLess(a, b) == a[1] < b[1] \/ (a[1] = b[1] /\ a[2] < b[2])

Ascending(s) == \A i, k \in DOMAIN s : i < k => PairLeq(s[i], s[k])

\* the (category, target) pairs of the Markdown rows, header left out
RowPairs ==
    [i \in 1..(Len(fs.md.rows) - 1) |->
        <<fs.md.rows[i + 1].category, fs.md.rows[i + 1].target>>]

\* the (category, target) pairs of the theme elements
ElementPairs ==
    [i \in DOMAIN fs.dist.theme.elements |->
        <<fs.dist.theme.elements[i].icon[1], fs.dist.theme.elements[i].tag>>]

ManifestKeys == DictKeys(fs.dist.manifest.icons)

\* s has one entry for each icon of the set S of icon positions
OnePerIcon(s, S) ==
    /\ Len(s) = Cardinality(S)
    /\ \A c \in Categories, t \in Targets :
           Cardinality({i \in DOMAIN s : s[i] = <<c, t>>}) =
           Cardinality({i \in S : icons[i].category = c /\ icons[i].target = t})

\* the least category among the embedded icons of target t
MinCat(t) ==
    CHOOSE c \in Categories :
        /\ \E i \in Embedded : icons[i].target = t /\ icons[i].category = c
        /\ \A i \in Embedded : icons[i].target = t => c <= icons[i].category

\* C2 as stated: the table, the theme and the manifest each hold one entry
\* per icon whose embedding succeeded, in ascending (category, target) order.
C2_Original ==
    pc = "done" =>
        /\ OnePerIcon(RowPairs, Embedded) /\ Ascending(RowPairs)
        /\ OnePerIcon(ElementPairs, Embedded) /\ Ascending(ElementPairs)
        /\ Len(ManifestKeys) = Cardinality(Embedded)

\* C2 amended: the table and the theme hold one entry per discovered icon in
\* ascending (category, target) order; the manifest icons map holds one entry
\* per distinct target among the icons whose embedding succeeded, in
\* ascending order of the (category, target) of the first such icon.
C2_Amended ==
    pc = "done" =>
        /\ OnePerIcon(RowPairs, DOMAIN icons) /\ Ascending(RowPairs)
        /\ OnePerIcon(ElementPairs, DOMAIN icons) /\ Ascending(ElementPairs)
        /\ {ManifestKeys[i] : i \in DOMAIN ManifestKeys} =
               {icons[i].target : i \in Embedded}
        /\ \A i, k \in DOMAIN ManifestKeys :
               i < k => PairLess(<<MinCat(ManifestKeys[i]), ManifestKeys[i]>>,
                                 <<MinCat(ManifestKeys[k]), ManifestKeys[k]>>)

C2_Witness ==
    /\ pc = "done"
    /\ Failed # {}
    /\ Len(ManifestKeys) = 1
    /\ \E i \in DOMAIN jobs : jobs[i] = "raised"
    /\ \E i, k \in DOMAIN icons :
           i < k /\ PairLess(<<icons[k].category, icons[k].target>>,
                             <<icons[i].category, icons[i].target>>)

\* C3: an iteration whose embedding fails leaves the manifest as it was and
\* moves on to the next icon; the loop reaches the end of the list and the
\* three files are written.
C3_FailedEmbedSkipsIcon ==
    /\ [][(pc = "aggregate" /\ ~Embeddable(sorted_icons[idx].filename)) =>
             /\ mermaid' = mermaid
             /\ idx' = idx + 1
             /\ pc' = IF idx = Len(sorted_icons) THEN "write" ELSE "aggregate"]_vars
    /\ [](pc = "done" =>
             /\ idx = Len(icons) + 1
             /\ Len(sorted_icons) = Len(icons)
             /\ OutputsWritten)

C3_Witness ==
    /\ pc = "aggregate"
    /\ idx > 1
    /\ ~Embeddable(sorted_icons[idx - 1].filename)
    /\ mermaid.total = 0
    /\ mermaid.categories = <<>>

\* C4: when any check of verify_environment fails the process has exited with
\* status 1, and ../dist and ../GCPSymbols.md are as they were at its start.
C4_VerifyFailureIsFatal ==
    verify_failure # "none" =>
        /\ pc = "exited"
        /\ exit_status = "1"
        /\ fs = fsAtStart

C4_Witness ==
    /\ verify_failure = "java_launch"
    /\ pc = "exited"
    /\ fsAtStart.md.written
    /\ fs.dist.manifest.written

\* C5: with --check-env and every check passing the process has exited with
\* status 0, and ../dist and ../GCPSymbols.md are as they were at its start.
C5_CheckEnvOnly ==
    (args.check_env /\ pc # "verify" /\ verify_failure = "none") =>
        /\ pc = "exited"
        /\ exit_status = "0"
        /\ fs = fsAtStart

C5_Witness ==
    /\ fsAtStart.dist.manifest.written
    /\ args.check_env
    /\ pc = "exited"
    /\ exit_status = "0"
    /\ fs.dist.exists
    /\ fs.dist.dirs # {}

\* C6: whenever some render job has started, ../dist holds the directory of
\* the category of every discovered icon.
C6_DirsBeforeJobs ==
    (\E i \in DOMAIN jobs : jobs[i] # "pending") =>
        /\ fs.dist.exists
        /\ \A k \in DOMAIN icons : icons[k].category \in fs.dist.dirs

C6_Witness ==
    \E i \in DOMAIN jobs, k \in DOMAIN icons :
        /\ jobs[i] = "running"
        /\ k \notin DOMAIN jobs
        /\ icons[k].category # icons[i].category
        /\ icons[k].category \in fs.dist.dirs

\* C7: while main() is at or past the sort that opens aggregation, every
\* icon's job was submitted and none is pending or running.
C7_BarrierBeforeAggregation ==
    pc \in {"sort", "aggregate", "write", "done"} =>
        /\ Len(jobs) = Len(icons)
        /\ \A i \in DOMAIN jobs : jobs[i] \in {"done", "raised"}

C7_Witness ==
    /\ pc = "aggregate"
    /\ Len(jobs) >= 2
    /\ \E i, k \in DOMAIN jobs : jobs[i] = "done" /\ jobs[k] = "raised"

\* C8: a complete run started where an earlier complete run over the same
\* tree left its outputs writes the same Markdown, theme and manifest contents.
C8_SameOutputs ==
    (pc = "done" /\ fsAtStart.md.written) =>
        /\ fs.md = fsAtStart.md
        /\ fs.dist.theme = fsAtStart.dist.theme
        /\ fs.dist.manifest = fsAtStart.dist.manifest

C8_Witness ==
    /\ pc = "done"
    /\ fsAtStart.md.written
    /\ fs.dist.manifest.total >= 2
    /\ fs.dist.manifest = fsAtStart.dist.manifest

\* C9: once main() waits on the pool, it eventually completes with status 0
\* and the three files written, the Markdown holding a row for every
\* discovered icon, whichever jobs raised.
C9_RaisingJobsDoNotBlock ==
    (pc = "join") ~>
        (/\ pc = "done"
         /\ exit_status = "0"
         /\ OutputsWritten
         /\ Len(fs.md.rows) = Len(icons) + 1)

C9_Witness ==
    /\ pc = "done"
    /\ exit_status = "0"
    /\ Len(jobs) >= 1
    /\ \A i \in DOMAIN jobs : jobs[i] = "raised"
    /\ Len(fs.md.rows) = Len(icons) + 1

RECURSIVE SumOfGroupLengths(_)
SumOfGroupLengths(d) ==
    IF d = <<>> THEN 0 ELSE Len(Head(d)[2]) + SumOfGroupLengths(Tail(d))

\* the places where target t stands in the category groups of manifest m
Occurrences(m, t) ==
    {<<g, p>> \in (DOMAIN m.categories) \X (1..MaxFiles) :
        p \in DOMAIN m.categories[g][2] /\ m.categories[g][2][p] = t}

\* C10: during and after aggregation, info.total is the number of keys of the
\* icons map and the sum of the lengths of the category groups, and every
\* target of the icons map stands once in one category group.
C10_ManifestInvariant ==
    pc \in {"aggregate", "write", "done"} =>
        /\ mermaid.total = Len(mermaid.icons)
        /\ mermaid.total = SumOfGroupLengths(mermaid.categories)
        /\ \A i \in DOMAIN mermaid.icons :
               Cardinality(Occurrences(mermaid, mermaid.icons[i][1])) = 1

====
